---- MODULE Spec2Model ----
(***************************************************************************)
(* Model of the menu-voting session engine of revdoor/menu-bot:            *)
(*   src/menu_voting/models.py  VotingSession, VotingManager               *)
(*   src/menu_voting/views.py   the handlers that set the phase flags      *)
(*                                                                         *)
(* Python objects are modelled with their identity: VotingSession objects  *)
(* live in objs (indexed by SessIds, 0 is None); a score dictionary is a   *)
(* DictObj whose id names the voting form that still holds the object.     *)
(*                                                                         *)
(* Spec        handlers run one at a time (the bot's asyncio loop: engine  *)
(*             methods contain no await, so each call is atomic).          *)
(* SpecForms   the voting forms of views.py, which build the dict they     *)
(*             hand to submit_vote item by item.                           *)
(* SpecCalc    calculate_results and the ranking of embeds.py applied to   *)
(*             sessions drawn from bounded sets.                           *)
(* SpecRestricted  restricted voting: the allow-list methods the callers   *)
(*             in views.py and bot.py use, on sessions built as the tests  *)
(*             build them.                                                 *)
(* SpecCalls   every call of the engine, on sessions with and without a    *)
(*             restriction; a call that raises shows its exception in ret. *)
(* SpecGuilds  one manager with the sessions of several guilds.            *)
(* SpecThreads engine calls run on preemptive threads, as in               *)
(*             tests/test_menu_voting.py TestConcurrentVoting; a call is   *)
(*             split at its statements.                                    *)
(* SpecThreadsFair  SpecThreads with a scheduler that runs every thread    *)
(*             that has a step to take.                                    *)
(* SpecMessage the handlers of Spec and the store of the message id.       *)
(* SpecViews   the buttons of the views, which act on the session the view *)
(*             was made with, over two votes of a guild.                   *)
(* SpecRunoff  the revote button of a ResultsView made with a tied result. *)
(***************************************************************************)
EXTENDS Integers, Sequences, FiniteSets, TLC

\* ---------------------------------------------------------------- bounds
NumGuilds == 1
NumUsers == 2
NumMenus == 3
NumBallotKeys == 1
NumTitles == 1
MaxScoreIn == 1
NumNames == 1
NumThreads == 2
NumCalcMenus == 4
NumThreadBallotKeys == 2
NumManagedGuilds == 2
NumMessages == 1
NumViewSessions == 2

\* ------------------------------------------------------ program constants
MIN_MENU_COUNT == 2
MIN_SCORE == 1
MAX_SCORE == 5

Guilds == 1..NumGuilds
Users == 1..NumUsers
MenuNames == 1..NumMenus
BallotKeys == 1..NumBallotKeys
Titles == 1..NumTitles
SessIds == 1..NumGuilds
ScoreIn == 0..MaxScoreIn
DisplayNames == 1..NumNames
Threads == 1..NumThreads
\* None
NoRef == 0

VARIABLES
    sessions,   \* VotingManager.sessions: guild_id -> session reference (NoRef: no entry)
    objs,       \* the VotingSession objects
    held,       \* per user: the dict object that user's voting form holds (NoDict: none)
    closing,    \* sessions whose close_vote handler waits at its first await
    ret,        \* the last call: operation, guild, returned value
    thr         \* per thread: the engine call it runs, its position in it, its result

vars == <<sessions, objs, held, closing, ret, thr>>

\* ------------------------------------------------------------ dictionaries
EmptyMap == [k \in {} |-> 0]

\* d[k] = v on a dict (insert or overwrite)
DictSet(d, k, v) == [x \in (DOMAIN d) \cup {k} |-> IF x = k THEN v ELSE d[x]]

\* A dict object passed as `votes`: its items, and its identity.  The identity
\* is the user whose form still holds a reference to the object; NoRef when
\* the caller kept no reference (nobody but the holder can reach the object).
DictObj(id, items) == [id |-> id, items |-> items]

NoDict == DictObj(NoRef, EmptyMap)

\* the dicts callers pass: every dict over the ballot keys
ScoreMaps == UNION {[S -> ScoreIn] : S \in SUBSET BallotKeys}

\* An insertion-ordered dict (menus) is a sequence of <<key, value>> pairs.
Keys(od) == {od[i][1] : i \in 1..Len(od)}

Lookup(od, k) == od[CHOOSE i \in 1..Len(od) : od[i][1] = k][2]

\* del od[k]
OdDelete(od, k) == SelectSeq(od, LAMBDA p : p[1] # k)

\* od[k] = v: a new key goes to the end, a present key keeps its place
OdSet(od, k, v) ==
    IF k \in Keys(od)
    THEN [i \in 1..Len(od) |-> IF od[i][1] = k THEN <<k, v>> ELSE od[i]]
    ELSE Append(od, <<k, v>>)

\* ----------------------------------------------------------- VotingSession
\* VotingSession(title, guild_id, channel_id, creator_id): the dataclass defaults
NewSession(title, guild_id, channel_id, creator_id) ==
    [title |-> title, guild_id |-> guild_id, channel_id |-> channel_id,
     creator_id |-> creator_id, menus |-> <<>>, votes |-> EmptyMap,
     voting_started |-> FALSE, voting_closed |-> FALSE, message_id |-> NoRef]

\* the record an unallocated object slot holds
BlankSession == NewSession(0, 0, 0, 0)

\* The statements of add_menu, remove_menu and submit_vote.
\* models.py:49 and :68
voting_has_started(self) == self.voting_started

\* models.py:51 and :70
menu_is_present(self, menu_name) == menu_name \in Keys(self.menus)

\* a store that also forgets the message of the session
add_menu_store_drops_message(self, menu_name, proposer_id) ==
    [self EXCEPT !.menus = OdSet(@, menu_name, proposer_id), !.message_id = NoRef]

\* models.py:53
add_menu_store(self, menu_name, proposer_id) ==
    [self EXCEPT !.menus = OdSet(@, menu_name, proposer_id)]

\* models.py:73
remove_menu_denied(self, menu_name, user_id, is_admin) ==
    ~is_admin /\ Lookup(self.menus, menu_name) # user_id

\* models.py:75
remove_menu_delete(self, menu_name) == [self EXCEPT !.menus = OdDelete(@, menu_name)]

\* models.py:89
submit_vote_refused(self) == ~self.voting_started \/ self.voting_closed

\* a store that replaces the whole votes dict by the one new entry
submit_vote_store_drops_others(self, user_id, votes) ==
    [self EXCEPT !.votes = DictSet(EmptyMap, user_id, votes)]

\* models.py:91: self.votes[user_id] = votes stores the caller's dict object
\* itself (with its identity), not a copy of it.
submit_vote_store(self, user_id, votes) ==
    [self EXCEPT !.votes = DictSet(@, user_id, votes)]

\* add_menu without its duplicate check
add_menu_no_duplicate_check(self, menu_name, proposer_id) ==
    IF voting_has_started(self) THEN [self |-> self, ret |-> FALSE]
    ELSE [self |-> add_menu_store(self, menu_name, proposer_id), ret |-> TRUE]

\* add_menu without its phase check
add_menu_no_phase_check(self, menu_name, proposer_id) ==
    IF menu_is_present(self, menu_name) THEN [self |-> self, ret |-> FALSE]
    ELSE [self |-> add_menu_store(self, menu_name, proposer_id), ret |-> TRUE]

\* submit_vote that tests voting_started only
submit_vote_ignores_closed(self, user_id, votes) ==
    IF ~self.voting_started THEN [self |-> self, ret |-> FALSE]
    ELSE [self |-> submit_vote_store(self, user_id, votes), ret |-> TRUE]

\* remove_menu without its proposer check
remove_menu_no_owner_check(self, menu_name, user_id, is_admin) ==
    IF voting_has_started(self) THEN [self |-> self, ret |-> FALSE]
    ELSE IF ~menu_is_present(self, menu_name) THEN [self |-> self, ret |-> FALSE]
    ELSE [self |-> remove_menu_delete(self, menu_name), ret |-> TRUE]

\* Each method run as a whole returns the object after the call and the
\* returned value.
add_menu(self, menu_name, proposer_id) ==
    IF voting_has_started(self) THEN [self |-> self, ret |-> FALSE]
    ELSE IF menu_is_present(self, menu_name) THEN [self |-> self, ret |-> FALSE]
    ELSE [self |-> add_menu_store(self, menu_name, proposer_id), ret |-> TRUE]

remove_menu(self, menu_name, user_id, is_admin) ==
    IF voting_has_started(self) THEN [self |-> self, ret |-> FALSE]
    ELSE IF ~menu_is_present(self, menu_name) THEN [self |-> self, ret |-> FALSE]
    ELSE IF remove_menu_denied(self, menu_name, user_id, is_admin)
         THEN [self |-> self, ret |-> FALSE]
    ELSE [self |-> remove_menu_delete(self, menu_name), ret |-> TRUE]

submit_vote(self, user_id, votes) ==
    IF submit_vote_refused(self) THEN [self |-> self, ret |-> FALSE]
    ELSE [self |-> submit_vote_store(self, user_id, votes), ret |-> TRUE]

\* d[k] and del d[k] raise KeyError when k is no key of d; min raises
\* ValueError on an empty list.  A store d[k] = v raises nothing.
KeyMissing(keys, k) == k \notin keys

\* The exception remove_menu ends with, "" when it returns: self.menus[menu_name]
\* (models.py:73) and del self.menus[menu_name] (:75) come after the tests of
\* models.py:68 and :70.
remove_menu_error(self, menu_name, user_id, is_admin) ==
    IF voting_has_started(self) \/ ~menu_is_present(self, menu_name) THEN ""
    ELSE IF ~is_admin /\ KeyMissing(Keys(self.menus), menu_name) THEN "KeyError"
    ELSE IF remove_menu_denied(self, menu_name, user_id, is_admin) THEN ""
    ELSE IF KeyMissing(Keys(self.menus), menu_name) THEN "KeyError"
    ELSE ""

\* a test that lets every ballot through to user_votes[menu_name]
ballot_has_always(user_votes, menu_name) == TRUE

\* models.py:109: if menu_name in user_votes
ballot_has(user_votes, menu_name) == menu_name \in DOMAIN user_votes

\* models.py:112: if scores
has_scores(scores) == scores # {}

\* VotingSession declares no voter_names field and submit_vote takes no display
\* name: the display names a session stores are none.
voter_names(self) == EmptyMap

\* sum(scores) over the ballots that contain menu_name
RECURSIVE SumScores(_, _, _)
SumScores(self, menu_name, voters) ==
    IF voters = {} THEN 0
    ELSE LET v == CHOOSE x \in voters : TRUE
             rest == SumScores(self, menu_name, voters \ {v})
         IN  IF ballot_has(self.votes[v].items, menu_name)
             THEN self.votes[v].items[menu_name] + rest ELSE rest

ScoresOf(self, menu_name) ==
    {self.votes[v].items[menu_name] :
        v \in {x \in DOMAIN self.votes : ballot_has(self.votes[x].items, menu_name)}}

\* max(scores) where min(scores) is meant
MinScore_takes_max(self, menu_name) ==
    IF ScoresOf(self, menu_name) = {} THEN 0
    ELSE CHOOSE m \in ScoresOf(self, menu_name) :
            \A x \in ScoresOf(self, menu_name) : m >= x

\* min(scores), 0 for an empty list
MinScore(self, menu_name) ==
    IF ~has_scores(ScoresOf(self, menu_name)) THEN 0
    ELSE CHOOSE m \in ScoresOf(self, menu_name) :
            \A x \in ScoresOf(self, menu_name) : m <= x

\* a sort key of the total alone
KeyGreater_total_only(a, b) == a[2] > b[2]

\* key order of results.sort(key=lambda x: (x[1], x[2]), reverse=True)
KeyGreater(a, b) == a[2] > b[2] \/ (a[2] = b[2] /\ a[3] > b[3])

\* a sort that puts x in front of the elements of its own key
InsertDesc_before_equals(sorted, x) ==
    LET before == {i \in 1..Len(sorted) : KeyGreater(sorted[i], x)}
        n == Cardinality(before)
    IN  SubSeq(sorted, 1, n) \o <<x>> \o SubSeq(sorted, n + 1, Len(sorted))

\* list.sort is stable, also with reverse=True: x goes behind every element
\* whose key is not smaller than its own
InsertDesc(sorted, x) ==
    LET before == {i \in 1..Len(sorted) : ~KeyGreater(x, sorted[i])}
        n == Cardinality(before)
    IN  SubSeq(sorted, 1, n) \o <<x>> \o SubSeq(sorted, n + 1, Len(sorted))

RECURSIVE SortDesc(_)
SortDesc(list) ==
    IF list = <<>> THEN <<>>
    ELSE InsertDesc(SortDesc(SubSeq(list, 1, Len(list) - 1)), list[Len(list)])

\* The exception calculate_results ends with, "" when it returns:
\* user_votes[menu_name] (models.py:110) is read for the ballots the test of
\* :109 lets through, and min(scores) (:114) is taken when the test of :112
\* holds.  menu_scores[menu] (:122) has a key for every menu of the loop.
calculate_results_error(self) ==
    IF \E i \in 1..Len(self.menus), v \in DOMAIN self.votes :
          /\ ballot_has(self.votes[v].items, self.menus[i][1])
          /\ KeyMissing(DOMAIN self.votes[v].items, self.menus[i][1])
    THEN "KeyError"
    ELSE IF \E i \in 1..Len(self.menus) :
               LET scores == {v \in DOMAIN self.votes :
                                 ballot_has(self.votes[v].items, self.menus[i][1])}
               IN  has_scores(scores) /\ scores = {}
    THEN "ValueError"
    ELSE ""

\* a calculate_results that leaves out the menus whose minimum is 0
calculate_results_drops_zero(self) ==
    SelectSeq(SortDesc([i \in 1..Len(self.menus) |->
                          <<self.menus[i][1],
                            SumScores(self, self.menus[i][1], DOMAIN self.votes),
                            MinScore(self, self.menus[i][1])>>]),
              LAMBDA entry : entry[3] # 0)

\* returns one list of (menu, total, min), every menu of the session in it
calculate_results(self) ==
    SortDesc([i \in 1..Len(self.menus) |->
                <<self.menus[i][1],
                  SumScores(self, self.menus[i][1], DOMAIN self.votes),
                  MinScore(self, self.menus[i][1])>>])

\* calculate_results returns the one list: it is the ranked list, and no list
\* of excluded menus comes with it.
ranked_of(results) == results

excluded_of(results) == <<>>

\* ------------------------------------------------------------------ embeds
\* a rank counter that goes up by one at every new (total, min) pair
next_rank_dense(idx, current_rank, prev, total, min_score) ==
    IF prev # <<>> /\ (total # prev[1] \/ min_score # prev[2])
    THEN current_rank + 1 ELSE current_rank

\* embeds.py:219-222: the rank of the idx-th entry; prev is (prev_total,
\* prev_min) of the entry before it, <<>> while both are None
next_rank(idx, current_rank, prev, total, min_score) ==
    IF prev # <<>> /\ (total # prev[1] \/ min_score # prev[2])
    THEN idx ELSE current_rank

\* the loop of _add_ranking_field: one line (rank, menu, total, min) per entry
RECURSIVE ranking_loop(_, _, _, _, _)
ranking_loop(results, idx, current_rank, prev, lines) ==
    IF idx > Len(results) THEN lines
    ELSE LET e == results[idx]
             rank == next_rank(idx, current_rank, prev, e[2], e[3])
         IN  ranking_loop(results, idx + 1, rank, <<e[2], e[3]>>,
                          Append(lines, <<rank, e[1], e[2], e[3]>>))

add_ranking_field(results) == ranking_loop(results, 1, 1, <<>>, <<>>)

\* ------------------------------------------------------------ VotingManager
\* create_session without the test for an existing session
create_session_overwrites(reg, os, slot, guild_id, channel_id, creator_id, title) ==
    LET at == IF reg[guild_id] # NoRef THEN reg[guild_id] ELSE slot
    IN  [reg |-> [reg EXCEPT ![guild_id] = at],
         objs |-> [os EXCEPT ![at] = NewSession(title, guild_id, channel_id, creator_id)],
         ret |-> at]

\* The manager is the pair (reg, os): reg is self.sessions, os the session
\* objects.  slot is the object slot a new VotingSession is built in.
create_session(reg, os, slot, guild_id, channel_id, creator_id, title) ==
    IF reg[guild_id] # NoRef THEN [reg |-> reg, objs |-> os, ret |-> NoRef]
    ELSE [reg |-> [reg EXCEPT ![guild_id] = slot],
          objs |-> [os EXCEPT ![slot] = NewSession(title, guild_id, channel_id, creator_id)],
          ret |-> slot]

get_session(reg, guild_id) == reg[guild_id]

\* close_session that returns True also when the guild has no session
close_session_always_true(reg, guild_id) ==
    [reg |-> [reg EXCEPT ![guild_id] = NoRef], ret |-> TRUE]

\* self.sessions.clear() where del self.sessions[guild_id] is meant
close_session_clears_all(reg, guild_id) ==
    IF reg[guild_id] # NoRef
    THEN [reg |-> [g \in DOMAIN reg |-> NoRef], ret |-> TRUE]
    ELSE [reg |-> reg, ret |-> FALSE]

close_session(reg, guild_id) ==
    IF reg[guild_id] # NoRef
    THEN [reg |-> [reg EXCEPT ![guild_id] = NoRef], ret |-> TRUE]
    ELSE [reg |-> reg, ret |-> FALSE]

\* ------------------------------------------------------------------ state
\* the value of ret: the last call, the guild it was for, what it returned
\* (ok: the returned bool, or whether a session was returned; out: the
\* session or the list returned, and for add_menu and remove_menu, which
\* return only the bool, the menu name of the call)
Call(op, g, ok, out) == [op |-> op, g |-> g, ok |-> ok, out |-> out]

\* (one slot for a session object per guild of the manager)
FreeSlots(reg, pending) ==
    {s \in 1..Cardinality(DOMAIN reg) : s \notin pending /\ \A g \in DOMAIN reg : reg[g] # s}

FirstFree(reg, pending) ==
    CHOOSE s \in FreeSlots(reg, pending) : \A x \in FreeSlots(reg, pending) : s <= x

\* a VotingSession nothing refers to any more is garbage: its slot is blank
Collect(os, reg, pending) ==
    [s \in DOMAIN os |-> IF s \in FreeSlots(reg, pending) THEN BlankSession ELSE os[s]]

\* a thread that has made no call
Idle == [pc |-> "idle", op |-> "none", user |-> 0, name |-> 0, arg |-> 0, ok |-> FALSE]

Init ==
    /\ sessions = [g \in Guilds |-> NoRef]
    /\ objs = [s \in SessIds |-> BlankSession]
    /\ held = [u \in Users |-> NoDict]
    /\ closing = {}
    /\ ret = Call("init", 0, FALSE, 0)
    /\ thr = [t \in Threads |-> Idle]

\* ---------------------------------------------------------------- actions
\* bot.py vote_start -> VotingManager.create_session; the restriction flag
\* the caller has for the vote is not a parameter of create_session
CreateSession(g, u, t, is_restricted) ==
    /\ sessions[g] = NoRef => FreeSlots(sessions, closing) # {}
    /\ LET slot == IF sessions[g] = NoRef THEN FirstFree(sessions, closing) ELSE NoRef
           r == create_session(sessions, objs, slot, g, 1, u, t)
       IN  /\ sessions' = r.reg
           /\ objs' = r.objs
           /\ ret' = Call("create_session", g, r.ret # NoRef, r.ret)
    /\ UNCHANGED <<held, closing, thr>>

\* bot.py force close, MenuProposalView.cancel_voting -> VotingManager.close_session
CloseSession(g) ==
    /\ LET r == close_session(sessions, g)
       IN  /\ sessions' = r.reg
           /\ objs' = Collect(objs, r.reg, closing)
           /\ ret' = Call("close_session", g, r.ret, 0)
    /\ UNCHANGED <<held, closing, thr>>

AddMenu(g, u, n) ==
    /\ get_session(sessions, g) # NoRef
    /\ LET s == get_session(sessions, g)
           r == add_menu(objs[s], n, u)
       IN  /\ objs' = [objs EXCEPT ![s] = r.self]
           /\ ret' = Call("add_menu", g, r.ret, n)
    /\ UNCHANGED <<sessions, held, closing, thr>>

\* (a call that raises returns nothing: ret has the exception for its op)
RemoveMenu(g, u, n, adm) ==
    /\ get_session(sessions, g) # NoRef
    /\ LET s == get_session(sessions, g)
           error == remove_menu_error(objs[s], n, u, adm)
           r == remove_menu(objs[s], n, u, adm)
       IN  IF error # ""
           THEN objs' = objs /\ ret' = Call(error, g, FALSE, n)
           ELSE /\ objs' = [objs EXCEPT ![s] = r.self]
                /\ ret' = Call("remove_menu", g, r.ret, n)
    /\ UNCHANGED <<sessions, held, closing, thr>>

\* close_proposals without its test of len(self.session.menus)
StartVoting_no_minimum(g, u) ==
    /\ get_session(sessions, g) # NoRef
    /\ LET s == get_session(sessions, g)
       IN  /\ u = objs[s].creator_id
           /\ objs' = [objs EXCEPT ![s].voting_started = TRUE]
    /\ ret' = Call("start_voting", g, TRUE, 0)
    /\ UNCHANGED <<sessions, held, closing, thr>>

\* MenuProposalView.close_proposals: the creator, with enough menus, starts the vote
StartVoting(g, u) ==
    /\ get_session(sessions, g) # NoRef
    /\ LET s == get_session(sessions, g)
       IN  /\ u = objs[s].creator_id
           /\ Len(objs[s].menus) >= MIN_MENU_COUNT
           /\ objs' = [objs EXCEPT ![s].voting_started = TRUE]
    /\ ret' = Call("start_voting", g, TRUE, 0)
    /\ UNCHANGED <<sessions, held, closing, thr>>

\* submit_vote with a dict the caller keeps no reference to; the display name
\* dn the caller has for the voter is not a parameter of submit_vote
SubmitVote(g, u, dn, m) ==
    /\ get_session(sessions, g) # NoRef
    /\ LET s == get_session(sessions, g)
           r == submit_vote(objs[s], u, DictObj(NoRef, m))
       IN  /\ objs' = [objs EXCEPT ![s] = r.self]
           /\ ret' = Call("submit_vote", g, r.ret, 0)
    /\ UNCHANGED <<sessions, held, closing, thr>>

\* a close_vote that unregisters the session as soon as it marks it closed
CloseVoteMark_unregisters(g, u) ==
    /\ get_session(sessions, g) # NoRef
    /\ LET s == get_session(sessions, g)
       IN  /\ u = objs[s].creator_id
           /\ DOMAIN objs[s].votes # {}
           /\ objs' = [objs EXCEPT ![s].voting_closed = TRUE]
           /\ closing' = closing \cup {s}
    /\ sessions' = [sessions EXCEPT ![g] = NoRef]
    /\ ret' = Call("close_vote", g, TRUE, 0)
    /\ UNCHANGED <<held, thr>>

\* a close_vote that waits on the message update without marking the session
CloseVoteMark_keeps_open(g, u) ==
    /\ get_session(sessions, g) # NoRef
    /\ LET s == get_session(sessions, g)
       IN  /\ u = objs[s].creator_id
           /\ DOMAIN objs[s].votes # {}
           /\ objs' = objs
           /\ closing' = closing \cup {s}
    /\ ret' = Call("close_vote", g, TRUE, 0)
    /\ UNCHANGED <<sessions, held, thr>>

\* VotingView.close_vote up to its first await: the creator, with one ballot
\* or more stored, marks the session closed
CloseVoteMark(g, u) ==
    /\ get_session(sessions, g) # NoRef
    /\ LET s == get_session(sessions, g)
       IN  /\ u = objs[s].creator_id
           /\ DOMAIN objs[s].votes # {}
           /\ objs' = [objs EXCEPT ![s].voting_closed = TRUE]
           /\ closing' = closing \cup {s}
    /\ ret' = Call("close_vote", g, TRUE, 0)
    /\ UNCHANGED <<sessions, held, thr>>

\* regular_results, zero_results = self.session.calculate_results()
\* (views.py:325) unpacks the one list calculate_results returns: a list of
\* another length than 2 raises ValueError; of a list of 2, regular_results
\* is the first (menu, total, min) tuple, and _add_winner_field
\* (embeds.py:189-191) subscripts its elements, the name and the two
\* integers: IndexError for a short name, TypeError at the total otherwise.
close_vote_errors(returned) ==
    IF Len(returned) # 2 THEN {"ValueError"} ELSE {"IndexError", "TypeError"}

\* VotingView.close_vote after the await: calculate_results, and the
\* exception that ends the handler before it makes a ResultsView
\* (views.py:331-337) and before close_session (views.py:352); ret has the
\* exception for its op and the returned list.
CloseVoteFinish(s) ==
    /\ s \in closing
    /\ \E error \in close_vote_errors(calculate_results(objs[s])) :
          ret' = Call(error, objs[s].guild_id, FALSE, calculate_results(objs[s]))
    /\ closing' = closing \ {s}
    /\ objs' = Collect(objs, sessions, closing \ {s})
    /\ UNCHANGED <<sessions, held, thr>>

\* a calculate_results that empties self.votes while it reads them
CalculateResults_consumes_votes(g) ==
    /\ get_session(sessions, g) # NoRef
    /\ ret' = Call("calculate_results", g, TRUE,
                   calculate_results(objs[get_session(sessions, g)]))
    /\ objs' = [objs EXCEPT ![get_session(sessions, g)].votes = EmptyMap]
    /\ UNCHANGED <<sessions, held, closing, thr>>

\* calculate_results has no assignment to self: models.py:94-126
CalculateResults(g) ==
    /\ get_session(sessions, g) # NoRef
    /\ LET self == objs[get_session(sessions, g)]
       IN  ret' = IF calculate_results_error(self) # ""
                  THEN Call(calculate_results_error(self), g, FALSE, 0)
                  ELSE Call("calculate_results", g, TRUE, calculate_results(self))
    /\ UNCHANGED <<sessions, objs, held, closing, thr>>

Next ==
    \/ \E g \in Guilds, u \in Users, t \in Titles, is_restricted \in BOOLEAN :
          CreateSession(g, u, t, is_restricted)
    \/ \E g \in Guilds : CloseSession(g)
    \/ \E g \in Guilds, u \in Users, n \in MenuNames : AddMenu(g, u, n)
    \/ \E g \in Guilds, u \in Users, n \in MenuNames, adm \in BOOLEAN : RemoveMenu(g, u, n, adm)
    \/ \E g \in Guilds, u \in Users : StartVoting(g, u)
    \/ \E g \in Guilds, u \in Users, dn \in DisplayNames, m \in ScoreMaps : SubmitVote(g, u, dn, m)
    \/ \E g \in Guilds, u \in Users : CloseVoteMark(g, u)
    \/ \E s \in SessIds : CloseVoteFinish(s)
    \/ \E g \in Guilds : CalculateResults(g)

Spec == Init /\ [][Next]_vars

\* ------------------------------------------------------------- results
\* calculate_results and the ranking applied to sessions as the tests of
\* TestVotingResultCalculation and TestRankingTieBreaking build them: menus
\* added in some order, voting started, one ballot per voter.
CalcNames == 1..NumCalcMenus

\* the menus 1..k added in ascending or in descending order of their names
CalcMenus ==
    {[i \in 1..k |-> <<i, 1>>] : k \in CalcNames} \cup
    {[i \in 1..k |-> <<k + 1 - i, 1>>] : k \in CalcNames}

\* a ballot may lack menus of the session and may name menus it does not have
CalcBallots == UNION {[S -> ScoreIn] : S \in SUBSET CalcNames}

CalcSeed(menus, ballots) ==
    [NewSession(1, 1, 1, 1) EXCEPT
        !.menus = menus,
        !.voting_started = TRUE,
        !.votes = [v \in DOMAIN ballots |-> DictObj(NoRef, ballots[v])]]

InitCalc ==
    /\ sessions = [g \in Guilds |-> IF g = 1 THEN 1 ELSE NoRef]
    /\ \E menus \in CalcMenus, ballots \in [Users -> CalcBallots] :
          objs = [s \in SessIds |-> IF s = 1 THEN CalcSeed(menus, ballots)
                                    ELSE BlankSession]
    /\ held = [u \in Users |-> NoDict]
    /\ closing = {}
    /\ ret = Call("init", 0, FALSE, 0)
    /\ thr = [t \in Threads |-> Idle]

\* create_results_embed -> _add_ranking_field(embed, regular_results)
AddRankingField(g) ==
    /\ ret.op = "calculate_results" /\ ret.g = g
    /\ ret' = Call("add_ranking_field", g, TRUE, add_ranking_field(ranked_of(ret.out)))
    /\ UNCHANGED <<sessions, objs, held, closing, thr>>

NextCalc ==
    \/ \E g \in Guilds : CalculateResults(g)
    \/ \E g \in Guilds : AddRankingField(g)

SpecCalc == InitCalc /\ [][NextCalc]_vars

\* a session as the tests set it up: menus proposed, voting started
VotingSeed ==
    [NewSession(1, 1, 1, 1) EXCEPT !.menus = <<<<1, 1>>, <<2, 2>>>>,
                                   !.voting_started = TRUE]

\* ------------------------------------------------------------------ forms
\* The voting forms of views.py build a voter's dict item by item and hand
\* that dict object to submit_vote.

InitForms ==
    /\ sessions = [g \in Guilds |-> IF g = 1 THEN 1 ELSE NoRef]
    /\ objs = [s \in SessIds |-> IF s = 1 THEN VotingSeed ELSE BlankSession]
    /\ held = [u \in Users |-> NoDict]
    /\ closing = {}
    /\ ret = Call("init", 0, FALSE, 0)
    /\ thr = [t \in Threads |-> Idle]

\* the dict object with identity u is no longer held by u's form: whoever
\* still stores it is its only holder
Detach(os, u) ==
    [s \in SessIds |->
        [os[s] EXCEPT !.votes =
            [v \in DOMAIN @ |-> IF @[v].id = u THEN DictObj(NoRef, @[v].items) ELSE @[v]]]]

\* the dict object with identity u gets d[k] = v: every holder sees it
Mutate(os, u, k, v) ==
    [s \in SessIds |->
        [os[s] EXCEPT !.votes =
            [x \in DOMAIN @ |->
                IF @[x].id = u THEN DictObj(u, DictSet(@[x].items, k, v)) ELSE @[x]]]]

\* VotingView.start_vote: a new form for the voter, over an empty dict or
\* over a deepcopy of the voter's stored ballot
OpenForm(g, u) ==
    /\ get_session(sessions, g) # NoRef
    /\ LET self == objs[get_session(sessions, g)]
       IN  /\ ~self.voting_closed
           /\ held' = [held EXCEPT ![u] =
                 DictObj(u, IF u \in DOMAIN self.votes THEN self.votes[u].items
                            ELSE EmptyMap)]
    /\ objs' = Detach(objs, u)
    /\ ret' = Call("open_form", g, TRUE, 0)
    /\ UNCHANGED <<sessions, closing, thr>>

\* the score select callbacks: self.votes[current_menu] = score
FormSetItem(g, u, k, v) ==
    /\ held[u].id = u
    /\ get_session(sessions, g) # NoRef
    /\ k \in Keys(objs[get_session(sessions, g)].menus)
    /\ held' = [held EXCEPT ![u] = DictObj(u, DictSet(@.items, k, v))]
    /\ objs' = Mutate(objs, u, k, v)
    /\ ret' = Call("form_setitem", g, TRUE, 0)
    /\ UNCHANGED <<sessions, closing, thr>>

\* the submit callbacks: session.submit_vote(user_id, ..., self.votes)
SubmitForm(g, u) ==
    /\ held[u].id = u
    /\ get_session(sessions, g) # NoRef
    /\ LET s == get_session(sessions, g)
           r == submit_vote(objs[s], u, held[u])
       IN  /\ objs' = [objs EXCEPT ![s] = r.self]
           /\ ret' = Call("submit_vote", g, r.ret, 0)
    /\ UNCHANGED <<sessions, held, closing, thr>>

NextForms ==
    \/ \E g \in Guilds, u \in Users : OpenForm(g, u)
    \/ \E g \in Guilds, u \in Users, k \in MenuNames, v \in ScoreIn :
          FormSetItem(g, u, k, v)
    \/ \E g \in Guilds, u \in Users : SubmitForm(g, u)
    \/ \E g \in Guilds, u \in Users : CloseVoteMark(g, u)

SpecForms == InitForms /\ [][NextForms]_vars

\* --------------------------------------------------------- restricted voting
\* views.py:224 and bot.py:746-762 call is_restricted, is_voter_allowed and
\* add_allowed_voter on a VotingSession; models.py defines none of them.  They
\* are modelled as the specification of the session engine states them.

\* VotingSession(..., is_restricted=flag): the session with its restriction
\* flag and an empty set of allowed voters
RestrictedSession(self, is_restricted) ==
    [is_restricted |-> is_restricted, allowed_voters |-> {}] @@ self

\* is_voter_allowed that leaves the creator out
is_voter_allowed_forgets_creator(self, user_id) ==
    ~self.is_restricted \/ user_id \in self.allowed_voters

is_voter_allowed(self, user_id) ==
    \/ ~self.is_restricted
    \/ user_id = self.creator_id
    \/ user_id \in self.allowed_voters

\* add_allowed_voter without its test of the restriction flag
add_allowed_voter_unconditional(self, user_id) ==
    [self |-> [self EXCEPT !.allowed_voters = @ \cup {user_id}], ret |-> TRUE]

add_allowed_voter(self, user_id) ==
    IF ~self.is_restricted THEN [self |-> self, ret |-> FALSE]
    ELSE [self |-> [self EXCEPT !.allowed_voters = @ \cup {user_id}], ret |-> TRUE]

\* sessions as test_restricted_voting and the session fixture build them,
\* in Proposing phase or with the vote started
RestrictedSeeds ==
    {RestrictedSession([base EXCEPT !.creator_id = c], flag) :
        base \in {NewSession(1, 1, 1, 1), VotingSeed}, c \in Users, flag \in BOOLEAN}

InitRestricted ==
    /\ sessions = [g \in Guilds |-> IF g = 1 THEN 1 ELSE NoRef]
    /\ \E seed \in RestrictedSeeds :
          objs = [s \in SessIds |-> IF s = 1 THEN seed ELSE BlankSession]
    /\ held = [u \in Users |-> NoDict]
    /\ closing = {}
    /\ ret = Call("init", 0, FALSE, 0)
    /\ thr = [t \in Threads |-> Idle]

\* session.is_voter_allowed(user_id); out is the user asked about
IsVoterAllowed(g, u) ==
    /\ get_session(sessions, g) # NoRef
    /\ ret' = Call("is_voter_allowed", g,
                   is_voter_allowed(objs[get_session(sessions, g)], u), u)
    /\ UNCHANGED <<sessions, objs, held, closing, thr>>

\* session.add_allowed_voter(user_id); out is the user added
AddAllowedVoter(g, u) ==
    /\ get_session(sessions, g) # NoRef
    /\ LET s == get_session(sessions, g)
           r == add_allowed_voter(objs[s], u)
       IN  /\ objs' = [objs EXCEPT ![s] = r.self]
           /\ ret' = Call("add_allowed_voter", g, r.ret, u)
    /\ UNCHANGED <<sessions, held, closing, thr>>

\* bot.py allow_voter: the creator allows a user who may not vote yet
AllowVoter(g, actor, u) ==
    /\ get_session(sessions, g) # NoRef
    /\ LET s == get_session(sessions, g)
       IN  /\ actor = objs[s].creator_id
           /\ objs[s].is_restricted
           /\ ~is_voter_allowed(objs[s], u)
           /\ objs' = [objs EXCEPT ![s] = add_allowed_voter(objs[s], u).self]
           /\ ret' = Call("allow_voter", g, TRUE, u)
    /\ UNCHANGED <<sessions, held, closing, thr>>

\* start_vote without its test of is_voter_allowed
StartVote_unchecked(g, u) ==
    /\ get_session(sessions, g) # NoRef
    /\ LET self == objs[get_session(sessions, g)]
       IN  /\ self.voting_started /\ ~self.voting_closed
           /\ held' = [held EXCEPT ![u] =
                 DictObj(u, IF u \in DOMAIN self.votes THEN self.votes[u].items
                            ELSE EmptyMap)]
           /\ ret' = Call("start_vote", g, TRUE, u)
    /\ UNCHANGED <<sessions, objs, closing, thr>>

\* VotingView.start_vote: a user who may not vote is turned away, anyone else
\* gets a voting form (views.py:223-229, then as OpenForm)
StartVote(g, u) ==
    /\ get_session(sessions, g) # NoRef
    /\ LET self == objs[get_session(sessions, g)]
       IN  /\ self.voting_started /\ ~self.voting_closed
           /\ IF ~is_voter_allowed(self, u)
              THEN /\ ret' = Call("start_vote", g, FALSE, u)
                   /\ UNCHANGED <<objs, held>>
              ELSE /\ held' = [held EXCEPT ![u] =
                         DictObj(u, IF u \in DOMAIN self.votes THEN self.votes[u].items
                                    ELSE EmptyMap)]
                   /\ objs' = Detach(objs, u)
                   /\ ret' = Call("start_vote", g, TRUE, u)
    /\ UNCHANGED <<sessions, closing, thr>>

\* The forms start_vote hands out.  A user who has no ballot yet gets a
\* SequentialVotingView over votes = {}, a user who has one gets a
\* VotingFormView over a deepcopy of it (is_edit_mode); held[u] is the dict
\* of the user's form, and the number of its keys is the sequential view's
\* current_index.

\* score selects that offer one score above MAX_SCORE
score_options_one_more(lo, hi) == {lo, hi + 1}

\* the options range(MIN_SCORE, MAX_SCORE + 1) of a score select
\* (views.py:386-393, 665-672), of which the model takes the two ends
score_options(lo, hi) == {lo, hi}

\* a sequential view that submits after its first score
sequential_done_at_once(menu_list, next_index) == next_index >= 1

\* views.py:411: next_index >= len(self.menu_list)
sequential_done(menu_list, next_index) == next_index >= Len(menu_list)

\* SequentialVotingView score select callback (views.py:402-445): the score
\* goes to the current menu; after the last menu the dict is submitted and
\* the view is gone, otherwise the next view takes the same dict
SequentialSelect(g, u, score) ==
    /\ get_session(sessions, g) # NoRef
    /\ held[u].id = u
    /\ LET s == get_session(sessions, g)
           self == objs[s]
           current_index == Cardinality(DOMAIN held[u].items)
       IN  /\ u \notin DOMAIN self.votes
           /\ current_index < Len(self.menus)
           /\ LET votes == DictSet(held[u].items, self.menus[current_index + 1][1], score)
                  r == submit_vote(self, u, DictObj(NoRef, votes))
              IN  IF sequential_done(self.menus, current_index + 1)
                  THEN /\ objs' = [objs EXCEPT ![s] = r.self]
                       /\ held' = [held EXCEPT ![u] = NoDict]
                       /\ ret' = Call("submit_vote", g, r.ret, u)
                  ELSE /\ held' = [held EXCEPT ![u] = DictObj(u, votes)]
                       /\ ret' = Call("select_score", g, TRUE, u)
                       /\ UNCHANGED objs
    /\ UNCHANGED <<sessions, closing, thr>>

\* VotingFormView menu select, then ScoreSelectView score select callback
\* (views.py:536-556, 677-690): current_votes[menu_name] = score
EditSelect(g, u, menu_name, score) ==
    /\ get_session(sessions, g) # NoRef
    /\ held[u].id = u
    /\ LET self == objs[get_session(sessions, g)]
       IN  /\ u \in DOMAIN self.votes
           /\ menu_name \in Keys(self.menus)
    /\ held' = [held EXCEPT ![u] = DictObj(u, DictSet(@.items, menu_name, score))]
    /\ ret' = Call("select_score", g, TRUE, u)
    /\ UNCHANGED <<sessions, objs, closing, thr>>

\* VotingFormView submit button callback (views.py:589-609): outside edit
\* mode an incomplete dict is turned away, otherwise it is submitted
EditSubmit(g, u) ==
    /\ get_session(sessions, g) # NoRef
    /\ held[u].id = u
    /\ LET s == get_session(sessions, g)
           self == objs[s]
           is_edit_mode == u \in DOMAIN self.votes
           r == submit_vote(self, u, DictObj(NoRef, held[u].items))
       IN  /\ is_edit_mode
           /\ IF ~is_edit_mode /\ Cardinality(DOMAIN held[u].items) < Len(self.menus)
              THEN /\ ret' = Call("submit_form", g, FALSE, u)
                   /\ UNCHANGED <<objs, held>>
              ELSE /\ objs' = [objs EXCEPT ![s] = r.self]
                   /\ held' = [held EXCEPT ![u] = NoDict]
                   /\ ret' = Call("submit_vote", g, r.ret, u)
    /\ UNCHANGED <<sessions, closing, thr>>

NextRestricted ==
    \/ \E g \in Guilds, u \in Users : IsVoterAllowed(g, u)
    \/ \E g \in Guilds, u \in Users : StartVote(g, u)
    \/ \E g \in Guilds, u \in Users, score \in score_options(MIN_SCORE, MAX_SCORE) :
          SequentialSelect(g, u, score)
    \/ \E g \in Guilds, u \in Users, n \in MenuNames,
          score \in score_options(MIN_SCORE, MAX_SCORE) : EditSelect(g, u, n, score)
    \/ \E g \in Guilds, u \in Users : EditSubmit(g, u)
    \/ \E g \in Guilds, u \in Users : AddAllowedVoter(g, u)
    \/ \E g \in Guilds, actor \in Users, u \in Users : AllowVoter(g, actor, u)

SpecRestricted == InitRestricted /\ [][NextRestricted]_vars

\* ---------------------------------------------------------------- threads
\* Engine calls on one session from preemptive threads, one call per thread.
\* A thread may be preempted between any two statements of a method; one
\* dict operation (a lookup, a store) is one step.

\* a session as created, nothing proposed yet
ProposingSeed == NewSession(1, 1, 1, 1)

\* a session whose proposals can be closed: MIN_MENU_COUNT menus, not started
ReadySeed == [VotingSeed EXCEPT !.voting_started = FALSE]

\* the manager starts with no session, or with guild 1's session in slot 1
InitThreads ==
    /\ \E seed \in {BlankSession, ProposingSeed, ReadySeed, VotingSeed} :
          /\ sessions = [g \in Guilds |-> IF g = 1 /\ seed # BlankSession THEN 1 ELSE NoRef]
          /\ objs = [s \in SessIds |-> IF s = 1 THEN seed ELSE BlankSession]
    /\ held = [u \in Users |-> NoDict]
    /\ closing = {}
    /\ ret = Call("init", 0, FALSE, 0)
    /\ thr = [t \in Threads |-> Idle]

\* thread t is at pc of its call
At(t, pc) == thr[t].pc = pc

Goto(t, pc) == thr' = [thr EXCEPT ![t].pc = pc]

Return(t, value) == thr' = [thr EXCEPT ![t].pc = "done", ![t].ok = value]

\* a call that ends in an exception returns nothing: op names the exception
Raise(t, error) == thr' = [thr EXCEPT ![t].pc = "done", ![t].ok = FALSE, ![t].op = error]

ThreadCallAddMenu(t, u, n) ==
    /\ At(t, "idle")
    /\ get_session(sessions, 1) # NoRef
    /\ thr' = [thr EXCEPT ![t] =
                 [pc |-> "add_menu_49", op |-> "add_menu", user |-> u, name |-> 0,
                  arg |-> n, ok |-> FALSE]]
    /\ UNCHANGED <<sessions, objs, held, closing, ret>>

\* if self.voting_started: return False
ThreadAddMenu49(t) ==
    /\ At(t, "add_menu_49")
    /\ IF voting_has_started(objs[1]) THEN Return(t, FALSE) ELSE Goto(t, "add_menu_51")
    /\ UNCHANGED <<sessions, objs, held, closing, ret>>

\* an add_menu that goes on only when no other add_menu is under way
ThreadAddMenu51_waits(t) ==
    /\ At(t, "add_menu_51")
    /\ \A t2 \in Threads \ {t} :
          thr[t2].op = "add_menu" => thr[t2].pc \in {"idle", "done"}
    /\ IF menu_is_present(objs[1], thr[t].arg) THEN Return(t, FALSE)
       ELSE Goto(t, "add_menu_53")
    /\ UNCHANGED <<sessions, objs, held, closing, ret>>

\* if menu_name in self.menus: return False
ThreadAddMenu51(t) ==
    /\ At(t, "add_menu_51")
    /\ IF menu_is_present(objs[1], thr[t].arg) THEN Return(t, FALSE)
       ELSE Goto(t, "add_menu_53")
    /\ UNCHANGED <<sessions, objs, held, closing, ret>>

\* self.menus[menu_name] = proposer_id; return True
ThreadAddMenu53(t) ==
    /\ At(t, "add_menu_53")
    /\ objs' = [objs EXCEPT ![1] = add_menu_store(@, thr[t].arg, thr[t].user)]
    /\ Return(t, TRUE)
    /\ UNCHANGED <<sessions, held, closing, ret>>

\* the dicts concurrent callers pass: every dict over the menus of VotingSeed
ThreadBallots == UNION {[S -> ScoreIn] : S \in SUBSET (1..NumThreadBallotKeys)}

\* the display name dn the caller has for the voter is not a parameter of
\* submit_vote
ThreadCallSubmitVote(t, u, dn, m) ==
    /\ At(t, "idle")
    /\ get_session(sessions, 1) # NoRef
    /\ thr' = [thr EXCEPT ![t] =
                 [pc |-> "submit_vote_89", op |-> "submit_vote", user |-> u, name |-> dn,
                  arg |-> m, ok |-> FALSE]]
    /\ UNCHANGED <<sessions, objs, held, closing, ret>>

\* if not self.voting_started or self.voting_closed: return False
ThreadSubmitVote89(t) ==
    /\ At(t, "submit_vote_89")
    /\ IF submit_vote_refused(objs[1]) THEN Return(t, FALSE)
       ELSE Goto(t, "submit_vote_91")
    /\ UNCHANGED <<sessions, objs, held, closing, ret>>

\* self.votes[user_id] = votes; return True
ThreadSubmitVote91(t) ==
    /\ At(t, "submit_vote_91")
    /\ objs' = [objs EXCEPT ![1] = submit_vote_store(@, thr[t].user, DictObj(NoRef, thr[t].arg))]
    /\ Return(t, TRUE)
    /\ UNCHANGED <<sessions, held, closing, ret>>

\* close_vote, the caller, is a button of the message of a started vote.
\* The locals of the call: the entries of menu_scores / menu_min_scores so
\* far, and the size of self.votes the running values() iterator started with.
ThreadCallCalculateResults(t) ==
    /\ At(t, "idle")
    /\ get_session(sessions, 1) # NoRef
    /\ voting_has_started(objs[1])
    /\ thr' = [thr EXCEPT ![t] =
                 [pc |-> "calculate_results_106", op |-> "calculate_results", user |-> 0,
                  name |-> 0, arg |-> [results |-> <<>>, used |-> 0], ok |-> FALSE]]
    /\ UNCHANGED <<sessions, objs, held, closing, ret>>

\* for menu_name in self.menus: scores = []; iter(self.votes.values()) --
\* after the last menu: build results, sort, return
ThreadCalculateResults106(t) ==
    /\ At(t, "calculate_results_106")
    /\ IF Len(thr[t].arg.results) >= Len(objs[1].menus)
       THEN thr' = [thr EXCEPT ![t].pc = "done", ![t].ok = TRUE,
                               ![t].arg = SortDesc(thr[t].arg.results)]
       ELSE thr' = [thr EXCEPT ![t].pc = "calculate_results_108",
                               ![t].arg.used = Cardinality(DOMAIN objs[1].votes)]
    /\ UNCHANGED <<sessions, objs, held, closing, ret>>

\* for user_votes in self.votes.values(): ...; menu_scores[menu_name] = ...
\* The reads of one menu's loop are taken at its end.  A dict that changed
\* size since the iterator was made raises RuntimeError at the next step of
\* the iterator.
ThreadCalculateResults108(t) ==
    /\ At(t, "calculate_results_108")
    /\ IF Cardinality(DOMAIN objs[1].votes) # thr[t].arg.used
       THEN Raise(t, "RuntimeError")
       ELSE LET menu_name == objs[1].menus[Len(thr[t].arg.results) + 1][1]
            IN  thr' = [thr EXCEPT ![t].pc = "calculate_results_106",
                                   ![t].arg.results =
                                       Append(@, <<menu_name,
                                                   SumScores(objs[1], menu_name, DOMAIN objs[1].votes),
                                                   MinScore(objs[1], menu_name)>>)]
    /\ UNCHANGED <<sessions, objs, held, closing, ret>>

ThreadCallCreateSession(t, u, title) ==
    /\ At(t, "idle")
    /\ thr' = [thr EXCEPT ![t] =
                 [pc |-> "create_session_155", op |-> "create_session", user |-> u,
                  name |-> 0, arg |-> title, ok |-> FALSE]]
    /\ UNCHANGED <<sessions, objs, held, closing, ret>>

\* if guild_id in self.sessions: return None
ThreadCreateSession155(t) ==
    /\ At(t, "create_session_155")
    /\ IF get_session(sessions, 1) # NoRef THEN Return(t, FALSE)
       ELSE Goto(t, "create_session_158")
    /\ UNCHANGED <<sessions, objs, held, closing, ret>>

\* session = VotingSession(...); self.sessions[guild_id] = session; return
\* session. The store replaces the guild's entry: a session it overwrites
\* stays with the caller that got it and is in the manager no more.
ThreadCreateSession158(t) ==
    /\ At(t, "create_session_158")
    /\ sessions' = [sessions EXCEPT ![1] = 1]
    /\ objs' = [objs EXCEPT ![1] = NewSession(thr[t].arg, 1, 1, thr[t].user)]
    /\ Return(t, TRUE)
    /\ UNCHANGED <<held, closing, ret>>

ThreadCallRemoveMenu(t, u, n, adm) ==
    /\ At(t, "idle")
    /\ get_session(sessions, 1) # NoRef
    /\ thr' = [thr EXCEPT ![t] =
                 [pc |-> "remove_menu_68", op |-> "remove_menu", user |-> u, name |-> 0,
                  arg |-> [menu_name |-> n, is_admin |-> adm], ok |-> FALSE]]
    /\ UNCHANGED <<sessions, objs, held, closing, ret>>

\* if self.voting_started: return False
ThreadRemoveMenu68(t) ==
    /\ At(t, "remove_menu_68")
    /\ IF voting_has_started(objs[1]) THEN Return(t, FALSE) ELSE Goto(t, "remove_menu_70")
    /\ UNCHANGED <<sessions, objs, held, closing, ret>>

\* if menu_name not in self.menus: return False
ThreadRemoveMenu70(t) ==
    /\ At(t, "remove_menu_70")
    /\ IF ~menu_is_present(objs[1], thr[t].arg.menu_name) THEN Return(t, FALSE)
       ELSE Goto(t, "remove_menu_73")
    /\ UNCHANGED <<sessions, objs, held, closing, ret>>

\* if not is_admin and self.menus[menu_name] != user_id: return False
ThreadRemoveMenu73(t) ==
    /\ At(t, "remove_menu_73")
    /\ IF ~thr[t].arg.is_admin /\ KeyMissing(Keys(objs[1].menus), thr[t].arg.menu_name)
       THEN Raise(t, "KeyError")
       ELSE IF remove_menu_denied(objs[1], thr[t].arg.menu_name, thr[t].user,
                                  thr[t].arg.is_admin)
            THEN Return(t, FALSE)
            ELSE Goto(t, "remove_menu_75")
    /\ UNCHANGED <<sessions, objs, held, closing, ret>>

\* del self.menus[menu_name]; return True
ThreadRemoveMenu75(t) ==
    /\ At(t, "remove_menu_75")
    /\ IF KeyMissing(Keys(objs[1].menus), thr[t].arg.menu_name)
       THEN Raise(t, "KeyError") /\ objs' = objs
       ELSE /\ objs' = [objs EXCEPT ![1] = remove_menu_delete(@, thr[t].arg.menu_name)]
            /\ Return(t, TRUE)
    /\ UNCHANGED <<sessions, held, closing, ret>>

ThreadCallGetSession(t) ==
    /\ At(t, "idle")
    /\ thr' = [thr EXCEPT ![t] =
                 [pc |-> "get_session_177", op |-> "get_session", user |-> 0, name |-> 0,
                  arg |-> 0, ok |-> FALSE]]
    /\ UNCHANGED <<sessions, objs, held, closing, ret>>

\* return self.sessions.get(guild_id)
ThreadGetSession177(t) ==
    /\ At(t, "get_session_177")
    /\ Return(t, get_session(sessions, 1) # NoRef)
    /\ UNCHANGED <<sessions, objs, held, closing, ret>>

ThreadCallCloseSession(t) ==
    /\ At(t, "idle")
    /\ thr' = [thr EXCEPT ![t] =
                 [pc |-> "close_session_189", op |-> "close_session", user |-> 0, name |-> 0,
                  arg |-> 0, ok |-> FALSE]]
    /\ UNCHANGED <<sessions, objs, held, closing, ret>>

\* if guild_id in self.sessions: ... return False
ThreadCloseSession189(t) ==
    /\ At(t, "close_session_189")
    /\ IF get_session(sessions, 1) # NoRef THEN Goto(t, "close_session_190")
       ELSE Return(t, FALSE)
    /\ UNCHANGED <<sessions, objs, held, closing, ret>>

\* del self.sessions[guild_id]; return True.  The session object stays with
\* the views and the calls that hold it.
ThreadCloseSession190(t) ==
    /\ At(t, "close_session_190")
    /\ IF get_session(sessions, 1) = NoRef
       THEN Raise(t, "KeyError") /\ sessions' = sessions
       ELSE sessions' = [sessions EXCEPT ![1] = NoRef] /\ Return(t, TRUE)
    /\ UNCHANGED <<objs, held, closing, ret>>

\* the button handler of the proposal message: the caller's own tests, then
\* the store that starts the voting
ThreadCallCloseProposals(t, u) ==
    /\ At(t, "idle")
    /\ get_session(sessions, 1) # NoRef
    /\ thr' = [thr EXCEPT ![t] =
                 [pc |-> "close_proposals_113", op |-> "close_proposals", user |-> u,
                  name |-> 0, arg |-> 0, ok |-> FALSE]]
    /\ UNCHANGED <<sessions, objs, held, closing, ret>>

\* if interaction.user.id != self.session.creator_id: return
ThreadCloseProposals113(t) ==
    /\ At(t, "close_proposals_113")
    /\ IF thr[t].user # objs[1].creator_id THEN Return(t, FALSE)
       ELSE Goto(t, "close_proposals_121")
    /\ UNCHANGED <<sessions, objs, held, closing, ret>>

\* if len(self.session.menus) < MIN_MENU_COUNT: return
ThreadCloseProposals121(t) ==
    /\ At(t, "close_proposals_121")
    /\ IF Len(objs[1].menus) < MIN_MENU_COUNT THEN Return(t, FALSE)
       ELSE Goto(t, "close_proposals_130")
    /\ UNCHANGED <<sessions, objs, held, closing, ret>>

\* self.session.voting_started = True
ThreadCloseProposals130(t) ==
    /\ At(t, "close_proposals_130")
    /\ objs' = [objs EXCEPT ![1].voting_started = TRUE]
    /\ Return(t, TRUE)
    /\ UNCHANGED <<sessions, held, closing, ret>>

NextThreads ==
    \/ \E t \in Threads, u \in Users : ThreadCallCloseProposals(t, u)
    \/ \E t \in Threads : ThreadCloseProposals113(t)
    \/ \E t \in Threads : ThreadCloseProposals121(t)
    \/ \E t \in Threads : ThreadCloseProposals130(t)
    \/ \E t \in Threads, u \in Users, n \in MenuNames, adm \in BOOLEAN :
          ThreadCallRemoveMenu(t, u, n, adm)
    \/ \E t \in Threads : ThreadRemoveMenu68(t)
    \/ \E t \in Threads : ThreadRemoveMenu70(t)
    \/ \E t \in Threads : ThreadRemoveMenu73(t)
    \/ \E t \in Threads : ThreadRemoveMenu75(t)
    \/ \E t \in Threads : ThreadCallGetSession(t)
    \/ \E t \in Threads : ThreadGetSession177(t)
    \/ \E t \in Threads : ThreadCallCloseSession(t)
    \/ \E t \in Threads : ThreadCloseSession189(t)
    \/ \E t \in Threads : ThreadCloseSession190(t)
    \/ \E t \in Threads : ThreadCallCalculateResults(t)
    \/ \E t \in Threads : ThreadCalculateResults106(t)
    \/ \E t \in Threads : ThreadCalculateResults108(t)
    \/ \E t \in Threads, u \in Users, title \in Titles : ThreadCallCreateSession(t, u, title)
    \/ \E t \in Threads : ThreadCreateSession155(t)
    \/ \E t \in Threads : ThreadCreateSession158(t)
    \/ \E t \in Threads, u \in Users, n \in MenuNames : ThreadCallAddMenu(t, u, n)
    \/ \E t \in Threads : ThreadAddMenu49(t)
    \/ \E t \in Threads : ThreadAddMenu51(t)
    \/ \E t \in Threads : ThreadAddMenu53(t)
    \/ \E t \in Threads, u \in Users, dn \in DisplayNames, m \in ThreadBallots :
          ThreadCallSubmitVote(t, u, dn, m)
    \/ \E t \in Threads : ThreadSubmitVote89(t)
    \/ \E t \in Threads : ThreadSubmitVote91(t)

SpecThreads == InitThreads /\ [][NextThreads]_vars

\* a step of the call thread t is in: every statement of the engine is a
\* test, a read or a store, none waits for a lock or for another thread
ThreadStep(t) ==
    \/ ThreadCloseProposals113(t) \/ ThreadCloseProposals121(t)
    \/ ThreadCloseProposals130(t)
    \/ ThreadRemoveMenu68(t) \/ ThreadRemoveMenu70(t)
    \/ ThreadRemoveMenu73(t) \/ ThreadRemoveMenu75(t)
    \/ ThreadGetSession177(t)
    \/ ThreadCloseSession189(t) \/ ThreadCloseSession190(t)
    \/ ThreadCalculateResults106(t) \/ ThreadCalculateResults108(t)
    \/ ThreadCreateSession155(t) \/ ThreadCreateSession158(t)
    \/ ThreadAddMenu49(t) \/ ThreadAddMenu51(t) \/ ThreadAddMenu53(t)
    \/ ThreadSubmitVote89(t) \/ ThreadSubmitVote91(t)

\* the scheduler runs every thread that has a step to take
SpecThreadsFair == SpecThreads /\ \A t \in Threads : WF_vars(ThreadStep(t))

\* ------------------------------------------------------------------ calls
\* Every call of the engine, on sessions with and without a restriction and
\* on the sessions create_session makes, which have no restriction fields:
\* add_allowed_voter is for the sessions that have them.
InitCalls ==
    /\ sessions = [g \in Guilds |-> IF g = 1 THEN 1 ELSE NoRef]
    /\ objs \in {[s \in SessIds |-> IF s = 1 THEN RestrictedSession(seed, flag)
                                    ELSE BlankSession] :
                    seed \in {ProposingSeed, VotingSeed}, flag \in BOOLEAN}
    /\ held = [u \in Users |-> NoDict]
    /\ closing = {}
    /\ ret = Call("init", 0, FALSE, 0)
    /\ thr = [t \in Threads |-> Idle]

NextCalls ==
    \/ \E g \in Guilds, u \in Users, t \in Titles, is_restricted \in BOOLEAN :
          CreateSession(g, u, t, is_restricted)
    \/ \E g \in Guilds : CloseSession(g)
    \/ \E g \in Guilds, u \in Users, n \in MenuNames : AddMenu(g, u, n)
    \/ \E g \in Guilds, u \in Users, n \in MenuNames, adm \in BOOLEAN : RemoveMenu(g, u, n, adm)
    \/ \E g \in Guilds, u \in Users : StartVoting(g, u)
    \/ \E g \in Guilds, u \in Users, dn \in DisplayNames, m \in ScoreMaps : SubmitVote(g, u, dn, m)
    \/ \E g \in Guilds, u \in Users :
          /\ get_session(sessions, g) # NoRef
          /\ "allowed_voters" \in DOMAIN objs[get_session(sessions, g)]
          /\ AddAllowedVoter(g, u)
    \/ \E g \in Guilds : CalculateResults(g)

SpecCalls == InitCalls /\ [][NextCalls]_vars

\* ------------------------------------------------------------------ message
\* The handlers store the id of the message they have sent in the session
\* (bot.py:562 after create_session, views.py:158 after the vote has
\* started) and read it to refresh that message; the store comes after an
\* await, as a step of its own.  Menu names are the MIN_MENU_COUNT names a
\* vote needs to start.
MessageIds == 1..NumMessages

SetMessageId(g, message_id) ==
    /\ get_session(sessions, g) # NoRef
    /\ objs' = [objs EXCEPT ![get_session(sessions, g)].message_id = message_id]
    /\ ret' = Call("set_message_id", g, TRUE, message_id)
    /\ UNCHANGED <<sessions, held, closing, thr>>

NextMessage ==
    \/ \E g \in Guilds, u \in Users, t \in Titles, is_restricted \in BOOLEAN :
          CreateSession(g, u, t, is_restricted)
    \/ \E g \in Guilds, message_id \in MessageIds : SetMessageId(g, message_id)
    \/ \E g \in Guilds : CloseSession(g)
    \/ \E g \in Guilds, u \in Users, n \in 1..MIN_MENU_COUNT : AddMenu(g, u, n)
    \/ \E g \in Guilds, u \in Users, n \in 1..MIN_MENU_COUNT, adm \in BOOLEAN :
          RemoveMenu(g, u, n, adm)
    \/ \E g \in Guilds, u \in Users : StartVoting(g, u)
    \/ \E g \in Guilds, u \in Users, dn \in DisplayNames, m \in ScoreMaps : SubmitVote(g, u, dn, m)
    \/ \E g \in Guilds, u \in Users : CloseVoteMark(g, u)
    \/ \E s \in SessIds : CloseVoteFinish(s)
    \/ \E g \in Guilds : CalculateResults(g)

SpecMessage == Init /\ [][NextMessage]_vars

\* ------------------------------------------------------------------ guilds
\* One VotingManager with the sessions of several guilds: the engine calls of
\* the handlers, for any guild, in any order.  Menu names are the
\* MIN_MENU_COUNT names a vote needs to start, and the calls are those of one
\* user, who is a member of every guild.
ManagedGuilds == 1..NumManagedGuilds

GuildCallers == {1}

InitGuilds ==
    /\ sessions = [g \in ManagedGuilds |-> NoRef]
    /\ objs = [s \in ManagedGuilds |-> BlankSession]
    /\ held = [u \in Users |-> NoDict]
    /\ closing = {}
    /\ ret = Call("init", 0, FALSE, 0)
    /\ thr = [t \in Threads |-> Idle]

NextGuilds ==
    \/ \E g \in ManagedGuilds, u \in GuildCallers, t \in Titles, is_restricted \in BOOLEAN :
          CreateSession(g, u, t, is_restricted)
    \/ \E g \in ManagedGuilds : CloseSession(g)
    \/ \E g \in ManagedGuilds, u \in GuildCallers, n \in 1..MIN_MENU_COUNT : AddMenu(g, u, n)
    \/ \E g \in ManagedGuilds, u \in GuildCallers, n \in 1..MIN_MENU_COUNT, adm \in BOOLEAN :
          RemoveMenu(g, u, n, adm)
    \/ \E g \in ManagedGuilds, u \in GuildCallers : StartVoting(g, u)
    \/ \E g \in ManagedGuilds, u \in GuildCallers, dn \in DisplayNames, m \in ScoreMaps :
          SubmitVote(g, u, dn, m)

SpecGuilds == InitGuilds /\ [][NextGuilds]_vars

\* ------------------------------------------------------------------ views
\* A view is made with its session (views.py:81-84, 195-200) and its buttons
\* act on self.session for as long as its message is there, also when the
\* manager has that session no more.  Slot s holds the session of the views
\* of the s-th vote of the guild; menu names are the MIN_MENU_COUNT names a
\* vote needs to start.
ViewSessions == 1..NumViewSessions

InitViews ==
    /\ sessions = [g \in Guilds |-> NoRef]
    /\ objs = [s \in ViewSessions |-> BlankSession]
    /\ held = [u \in Users |-> NoDict]
    /\ closing = {}
    /\ ret = Call("init", 0, FALSE, 0)
    /\ thr = [t \in Threads |-> Idle]

\* views.py:32-43: the guild of the view's session has a session, whichever
_check_session_exists(session, reg) == get_session(reg, session.guild_id) # NoRef

\* bot.py vote_start: a vote that has a slot for its session
ViewsCreateSession(g, u, t) ==
    /\ \E s \in ViewSessions : objs[s] = BlankSession
    /\ LET slot == CHOOSE s \in ViewSessions :
                      /\ objs[s] = BlankSession
                      /\ \A x \in ViewSessions : objs[x] = BlankSession => s <= x
           r == create_session(sessions, objs, slot, g, 1, u, t)
       IN  /\ sessions' = r.reg
           /\ objs' = r.objs
           /\ ret' = Call("create_session", g, r.ret # NoRef, r.ret)
    /\ UNCHANGED <<held, closing, thr>>

\* MenuProposalView.close_proposals, views.py:106-130
ViewCloseProposals(s, u) ==
    /\ objs[s] # BlankSession
    /\ _check_session_exists(objs[s], sessions)
    /\ u = objs[s].creator_id
    /\ Len(objs[s].menus) >= MIN_MENU_COUNT
    /\ objs' = [objs EXCEPT ![s].voting_started = TRUE]
    /\ ret' = Call("start_voting", objs[s].guild_id, TRUE, s)
    /\ UNCHANGED <<sessions, held, closing, thr>>

\* MenuProposalView.cancel_voting, views.py:167-183
ViewCancelVoting(s, u) ==
    /\ objs[s] # BlankSession
    /\ _check_session_exists(objs[s], sessions)
    /\ u = objs[s].creator_id
    /\ sessions' = close_session(sessions, objs[s].guild_id).reg
    /\ ret' = Call("cancel_voting", objs[s].guild_id,
                   close_session(sessions, objs[s].guild_id).ret, s)
    /\ UNCHANGED <<objs, held, closing, thr>>

\* VotingView.start_vote and the forms it opens (views.py:208-275, 417, 602):
\* a ballot for the session of the view
ViewSubmitVote(s, u, m) ==
    /\ objs[s] # BlankSession
    /\ _check_session_exists(objs[s], sessions)
    /\ ~objs[s].voting_closed
    /\ LET r == submit_vote(objs[s], u, DictObj(NoRef, m))
       IN  /\ objs' = [objs EXCEPT ![s] = r.self]
           /\ ret' = Call("submit_vote", objs[s].guild_id, r.ret, s)
    /\ UNCHANGED <<sessions, held, closing, thr>>

\* VotingView.close_vote, views.py:282-328: the session of the view is marked
\* closed, and the handler ends in the exception of close_vote_errors
ViewCloseVote(s, u) ==
    /\ objs[s] # BlankSession
    /\ _check_session_exists(objs[s], sessions)
    /\ u = objs[s].creator_id
    /\ DOMAIN objs[s].votes # {}
    /\ objs' = [objs EXCEPT ![s].voting_closed = TRUE]
    /\ \E error \in close_vote_errors(calculate_results(objs[s])) :
          ret' = Call(error, objs[s].guild_id, FALSE, s)
    /\ UNCHANGED <<sessions, held, closing, thr>>

NextViews ==
    \/ \E g \in Guilds, u \in Users, t \in Titles : ViewsCreateSession(g, u, t)
    \/ \E g \in Guilds, u \in GuildCallers, n \in 1..MIN_MENU_COUNT : AddMenu(g, u, n)
    \/ \E s \in ViewSessions, u \in Users : ViewCloseProposals(s, u)
    \/ \E s \in ViewSessions, u \in Users : ViewCancelVoting(s, u)
    \/ \E s \in ViewSessions, u \in GuildCallers, m \in ScoreMaps : ViewSubmitVote(s, u, m)
    \/ \E s \in ViewSessions, u \in Users : ViewCloseVote(s, u)

SpecViews == InitViews /\ [][NextViews]_vars

\* ----------------------------------------------------------------- runoff
\* ResultsView(regular_results, session, manager) and its revote button.  The
\* view holds the ranked list and the session it was made with; the manager
\* has that session no more.  ret.out is self.regular_results, slot 1 holds
\* self.session.
\* winners (views.py:806-811): the entries of a ranked list with the pair (total, min) of its first
TopTied(ranked) ==
    {i \in 1..Len(ranked) : ranked[i][2] = ranked[1][2] /\ ranked[i][3] = ranked[1][3]}

RunoffSessions ==
    {[CalcSeed(menus, ballots) EXCEPT !.voting_closed = TRUE] :
        menus \in CalcMenus, ballots \in [Users -> CalcBallots]}

InitRunoff ==
    /\ sessions = [g \in Guilds |-> NoRef]
    /\ \E self \in RunoffSessions \cup
                    {RestrictedSession(x, flag) : x \in RunoffSessions, flag \in BOOLEAN} :
          /\ calculate_results_error(self) = ""
          /\ Cardinality(TopTied(ranked_of(calculate_results(self)))) > 1
          /\ objs = [s \in SessIds |-> IF s = 1 THEN self ELSE BlankSession]
          /\ ret = Call("results_view", 1, TRUE, ranked_of(calculate_results(self)))
    /\ held = [u \in Users |-> NoDict]
    /\ closing = {}
    /\ thr = [t \in Threads |-> Idle]

\* The exception revote ends with before it has a new session:
\* self.session.is_restricted (views.py:816) is read of a session that may
\* have no such attribute, and create_session is called with the keyword
\* is_restricted (views.py:820-826), which it does not take.
revote_error(session) ==
    IF "is_restricted" \notin DOMAIN session THEN "AttributeError" ELSE "TypeError"

\* ResultsView.revote, pressed by user u
Revote(g, u) ==
    /\ ret.op = "results_view" /\ ret.g = g
    /\ ret' = Call(revote_error(objs[1]), g, FALSE, ret.out)
    /\ UNCHANGED <<sessions, objs, held, closing, thr>>

NextRunoff == \E g \in Guilds, u \in Users : Revote(g, u)

SpecRunoff == InitRunoff /\ [][NextRunoff]_vars

\* ------------------------------------------------------------------ claims
\* the phase of a session: 0 Proposing, 1 Voting, 2 Closed
Phase(self) ==
    IF self.voting_closed THEN 2 ELSE IF self.voting_started THEN 1 ELSE 0

Live(reg, pending, s) == s \notin FreeSlots(reg, pending)

\* the session registered for the guild of the last call
LastSession == objs[sessions[ret.g]]

HasZero(self, menu_name) ==
    \E v \in DOMAIN self.votes :
        menu_name \in DOMAIN self.votes[v].items /\ self.votes[v].items[menu_name] = 0

\* C1: every community has at most one registered session, and a create for
\* a community that has a session returns None and changes neither the
\* registry nor any session.
C1_CreateOnExistingFails ==
    /\ [](\A g \in Guilds : sessions[g] # NoRef =>
            /\ objs[sessions[g]].guild_id = g
            /\ \A g2 \in Guilds : sessions[g2] = sessions[g] => g2 = g)
    /\ [][\A g \in Guilds, u \in Users, t \in Titles, r \in BOOLEAN :
            (CreateSession(g, u, t, r) /\ sessions[g] # NoRef) =>
                /\ ret'.out = NoRef /\ ~ret'.ok
                /\ sessions' = sessions
                /\ objs' = objs]_vars

C1_Witness ==
    /\ ret.op = "create_session" /\ ret.out = NoRef
    /\ sessions[ret.g] # NoRef
    /\ LastSession.menus # <<>>
    /\ DOMAIN LastSession.votes # {}

\* C5 (as claimed): a successful submit_vote by a voter who already has a
\* ballot leaves exactly the second score map as that voter's ballot, and the
\* stored display name of the voter is the one given with the second call.
C5_OverwriteWithName ==
    [][\A g \in Guilds, u \in Users, dn \in DisplayNames, m \in ScoreMaps :
         (SubmitVote(g, u, dn, m) /\ ret'.ok /\ u \in DOMAIN objs[sessions[g]].votes) =>
            LET post == objs'[sessions[g]]
            IN  /\ post.votes[u].items = m
                /\ DOMAIN post.votes = DOMAIN objs[sessions[g]].votes
                /\ u \in DOMAIN voter_names(post)
                /\ voter_names(post)[u] = dn]_vars

\* C6 (as claimed): no menu that some ballot scores 0 is in the ranked list
\* calculate_results returns.
C6_ZeroNeverRanked ==
    ret.op = "calculate_results" =>
        \A i \in 1..Len(ranked_of(ret.out)) :
            ~HasZero(LastSession, ranked_of(ret.out)[i][1])

\* C7 (as claimed): every menu with a 0 score is exactly once in the excluded
\* list, with the sum of its scores and the display names of the voters who
\* scored it 0.
C7_ExcludedReported ==
    ret.op = "calculate_results" =>
        LET self == LastSession
            ex == excluded_of(ret.out)
        IN  \A n \in Keys(self.menus) : HasZero(self, n) =>
                /\ Cardinality({i \in 1..Len(ex) : ex[i][1] = n}) = 1
                /\ \A i \in 1..Len(ex) : ex[i][1] = n =>
                     /\ ex[i][2] = SumScores(self, n, DOMAIN self.votes)
                     /\ ex[i][3] = {voter_names(self)[v] :
                            v \in {x \in DOMAIN self.votes :
                                     /\ n \in DOMAIN self.votes[x].items
                                     /\ self.votes[x].items[n] = 0}}

\* C8: the phase of a session never goes back, and once voting has started
\* every add_menu and remove_menu returns False and the menus stay as they are.
C8_PhaseMonotone ==
    [][\A s \in SessIds :
         (Live(sessions, closing, s) /\ Live(sessions', closing', s)) =>
            /\ Phase(objs'[s]) >= Phase(objs[s])
            /\ objs[s].voting_started =>
                 /\ objs'[s].menus = objs[s].menus
                 /\ (ret'.op \in {"add_menu", "remove_menu"} /\ sessions[ret'.g] = s)
                       => ~ret'.ok]_vars

\* add_menu returned False for a name that is not a menu: refused by the phase
C8_Witness ==
    /\ ret.op = "add_menu" /\ ~ret.ok
    /\ sessions[ret.g] # NoRef
    /\ Phase(LastSession) = 1
    /\ ret.out \notin Keys(LastSession.menus)

\* C9: submit_vote returns True and stores the ballot exactly when the session
\* is in Voting phase; in Proposing and in Closed phase it returns False and
\* the ballots and display names stay as they are.
C9_SubmitOnlyInVoting ==
    [][\A g \in Guilds, u \in Users, dn \in DisplayNames, m \in ScoreMaps :
         SubmitVote(g, u, dn, m) =>
            LET pre == objs[sessions[g]]
                post == objs'[sessions[g]]
            IN  /\ ret'.ok = (Phase(pre) = 1)
                /\ ret'.ok => /\ u \in DOMAIN post.votes
                              /\ post.votes[u].items = m
                /\ ~ret'.ok => /\ post.votes = pre.votes
                               /\ voter_names(post) = voter_names(pre)]_vars

C9_Witness ==
    /\ ret.op = "submit_vote" /\ ~ret.ok
    /\ sessions[ret.g] # NoRef
    /\ Phase(LastSession) = 2

\* C10: add_menu returns True and appends (name -> proposer) at the end of the
\* menus exactly when the session is in Proposing phase and the name is not a
\* menu yet; otherwise it returns False and the menus stay as they are.
C10_AddMenuExactly ==
    [][\A g \in Guilds, u \in Users, n \in MenuNames :
         AddMenu(g, u, n) =>
            LET pre == objs[sessions[g]]
                post == objs'[sessions[g]]
            IN  /\ ret'.ok = (Phase(pre) = 0 /\ n \notin Keys(pre.menus))
                /\ ret'.ok => post.menus = Append(pre.menus, <<n, u>>)
                /\ ~ret'.ok => post.menus = pre.menus]_vars

\* add_menu returned False in Proposing phase: the name was a menu already
C10_Witness ==
    /\ ret.op = "add_menu" /\ ~ret.ok
    /\ sessions[ret.g] # NoRef
    /\ Phase(LastSession) = 0
    /\ LastSession.menus # <<>>

\* the threads that have made their call and returned from it
Returned == {t \in Threads : thr[t].pc = "done"}

\* no call is in flight and one call or more has returned
Quiescent == Returned # {} /\ \A t \in Threads : thr[t].pc \in {"idle", "done"}

\* C2: when submit_vote calls of distinct voters ran concurrently on a
\* session in Voting phase and all have returned, each returned True and the
\* session stores exactly one ballot per call, equal to the map that voter passed.
C2_ConcurrentSubmits ==
    (/\ Quiescent
     /\ \A t \in Returned : thr[t].op = "submit_vote"
     /\ \A t1, t2 \in Returned : thr[t1].user = thr[t2].user => t1 = t2
     /\ Phase(objs[1]) = 1) =>
        /\ \A t \in Returned :
              /\ thr[t].ok
              /\ thr[t].user \in DOMAIN objs[1].votes
              /\ objs[1].votes[thr[t].user].items = thr[t].arg
        /\ DOMAIN objs[1].votes = {thr[t].user : t \in Returned}

C2_Witness ==
    /\ Quiescent
    /\ Cardinality(Returned) = NumThreads
    /\ \A t \in Returned : thr[t].op = "submit_vote" /\ thr[t].ok
    /\ \A t1, t2 \in Returned :
          t1 # t2 => thr[t1].user # thr[t2].user /\ thr[t1].arg # thr[t2].arg
    /\ Cardinality(DOMAIN objs[1].votes) = NumThreads

\* C3 (as claimed): when add_menu calls with one name ran concurrently on a
\* session in Proposing phase that did not have the name, exactly one returned
\* True, and the name is a menu once, with the proposer of that call.
C3_OneAddWins ==
    (/\ Quiescent
     /\ \A t \in Returned : thr[t].op = "add_menu"
     /\ \A t1, t2 \in Returned : thr[t1].arg = thr[t2].arg
     /\ Phase(objs[1]) = 0) =>
        /\ Cardinality({t \in Returned : thr[t].ok}) = 1
        /\ \A t \in Returned : thr[t].ok =>
              /\ Cardinality({i \in 1..Len(objs[1].menus) :
                                objs[1].menus[i][1] = thr[t].arg}) = 1
              /\ Lookup(objs[1].menus, thr[t].arg) = thr[t].user

\* C4 (as claimed): a change the caller makes to the dict it passed to a
\* successful submit_vote leaves every stored ballot as it was.
C4_StoredBallotIsolated ==
    [][ret'.op = "form_setitem" =>
         \A s \in SessIds : \A v \in DOMAIN objs[s].votes :
             objs'[s].votes[v].items = objs[s].votes[v].items]_vars

C12_CreatorRemovesAny ==
    [][\A g \in Guilds, u \in Users, n \in MenuNames :
         (/\ RemoveMenu(g, u, n, FALSE)
          /\ Phase(objs[sessions[g]]) = 0
          /\ u = objs[sessions[g]].creator_id
          /\ n \in Keys(objs[sessions[g]].menus)
          /\ Lookup(objs[sessions[g]].menus, n) # u) =>
             /\ ret'.ok
             /\ n \notin Keys(objs'[sessions[g]].menus)]_vars

\* the score voter v gives menu n in the session, 0 when v has no ballot or
\* the ballot lacks n
GivenScore(self, v, n) ==
    IF v \in DOMAIN self.votes /\ n \in DOMAIN self.votes[v].items
    THEN self.votes[v].items[n] ELSE 0

RECURSIVE TotalUpTo(_, _, _)
TotalUpTo(self, n, k) ==
    IF k = 0 THEN 0 ELSE GivenScore(self, k, n) + TotalUpTo(self, n, k - 1)

\* the voters whose ballot has a score for menu n
Scorers(self, n) == {v \in DOMAIN self.votes : n \in DOMAIN self.votes[v].items}

\* C13: every entry (menu, total, min) of the ranked list has total = the sum
\* and min = the least of the scores the stored ballots give the menu; a
\* ballot that lacks the menu adds nothing, and both are 0 when no ballot has it.
C13_TotalAndMin ==
    ret.op = "calculate_results" =>
        LET self == LastSession
            ranked == ranked_of(ret.out)
        IN  \A i \in 1..Len(ranked) :
               LET n == ranked[i][1]
               IN  /\ ranked[i][2] = TotalUpTo(self, n, NumUsers)
                   /\ IF Scorers(self, n) = {} THEN ranked[i][2] = 0 /\ ranked[i][3] = 0
                      ELSE /\ \E v \in Scorers(self, n) : ranked[i][3] = GivenScore(self, v, n)
                           /\ \A v \in Scorers(self, n) : ranked[i][3] <= GivenScore(self, v, n)

\* results with a menu no ballot has, and a menu that one ballot has and
\* another lacks, whose scores differ from its total
C13_Witness ==
    /\ ret.op = "calculate_results"
    /\ \E i \in 1..Len(ret.out) : Scorers(LastSession, ret.out[i][1]) = {}
    /\ \E i \in 1..Len(ret.out) :
          /\ Scorers(LastSession, ret.out[i][1]) \notin {{}, DOMAIN LastSession.votes}
          /\ ret.out[i][2] > 0
    /\ \E i \in 1..Len(ret.out) : ret.out[i][3] > 0 /\ ret.out[i][3] < ret.out[i][2]

\* C14: the ranked list is in descending order of total and, among equal
\* totals, in descending order of min.
C14_SortedByTotalThenMin ==
    ret.op = "calculate_results" =>
        LET ranked == ranked_of(ret.out)
        IN  \A i, j \in 1..Len(ranked) : i < j =>
               \/ ranked[i][2] > ranked[j][2]
               \/ ranked[i][2] = ranked[j][2] /\ ranked[i][3] >= ranked[j][3]

\* two menus of equal total and different min, the one added later having the
\* higher min and standing first
C14_Witness ==
    /\ ret.op = "calculate_results"
    /\ \E i, j \in 1..Len(ret.out) :
          /\ i < j
          /\ ret.out[i][2] = ret.out[j][2]
          /\ ret.out[i][3] > ret.out[j][3]
          /\ \E a, b \in 1..Len(LastSession.menus) :
                /\ a < b
                /\ LastSession.menus[a][1] = ret.out[j][1]
                /\ LastSession.menus[b][1] = ret.out[i][1]

\* C15: the rank shown for a ranked menu is 1 + the number of ranked menus
\* with a strictly better (total, min) pair: equal pairs share a rank, and
\* three menus at rank 1 are followed by rank 4.
C15_RankSkipsTies ==
    ret.op = "add_ranking_field" =>
        LET lines == ret.out
            Better(a, b) == a[3] > b[3] \/ (a[3] = b[3] /\ a[4] > b[4])
        IN  /\ Len(lines) = Len(LastSession.menus)
            /\ \A i \in 1..Len(lines) :
                  lines[i][1] = 1 + Cardinality({j \in 1..Len(lines) : Better(lines[j], lines[i])})

\* three menus share rank 1 and the fourth has rank 4
C15_Witness ==
    /\ ret.op = "add_ranking_field"
    /\ Len(ret.out) = 4
    /\ ret.out[1][1] = 1 /\ ret.out[2][1] = 1 /\ ret.out[3][1] = 1
    /\ ret.out[4][1] = 4

\* C16: calculate_results leaves the menus, the ballots, the display names and
\* the phase as they are, and a second call with no change in between returns
\* what the first returned.
C16_CalculatePure ==
    [][\A g \in Guilds :
         CalculateResults(g) =>
            /\ sessions' = sessions
            /\ objs' = objs
            /\ voter_names(objs'[sessions[g]]) = voter_names(objs[sessions[g]])
            /\ (ret.op = "calculate_results" /\ ret.g = g) => ret'.out = ret.out]_vars

\* results computed in the Voting phase from two ballots
C16_Witness ==
    /\ ret.op = "calculate_results"
    /\ Phase(LastSession) = 1
    /\ Cardinality(DOMAIN LastSession.votes) = NumUsers
    /\ Len(ret.out) >= MIN_MENU_COUNT

\* C17 (as claimed): create_session for a guild with no session returns a new
\* session in Proposing phase with no menus, no ballots, an empty
\* allowed_voters set and the given title, ids and is_restricted flag, and
\* get_session for the guild then returns that session.
C17_CreateFresh ==
    [][\A g \in Guilds, u \in Users, t \in Titles, r \in BOOLEAN :
         (CreateSession(g, u, t, r) /\ sessions[g] = NoRef) =>
            /\ ret'.ok
            /\ get_session(sessions', g) = ret'.out
            /\ LET post == objs'[ret'.out]
               IN  /\ Phase(post) = 0
                   /\ post.menus = <<>> /\ post.votes = EmptyMap
                   /\ post.title = t /\ post.guild_id = g /\ post.creator_id = u
                   /\ "allowed_voters" \in DOMAIN post /\ post.allowed_voters = {}
                   /\ "is_restricted" \in DOMAIN post /\ post.is_restricted = r]_vars

\* C18: close_session removes the guild's session and returns True exactly
\* when the guild had one; otherwise (also on a repeated close) it returns
\* False and changes nothing; after a close that returned True, get_session
\* returns None and a create_session for the guild returns a session.
C18_CloseExactly ==
    /\ [][\A g \in Guilds :
            CloseSession(g) =>
               /\ ret'.ok = (sessions[g] # NoRef)
               /\ get_session(sessions', g) = NoRef
               /\ \A g2 \in Guilds \ {g} : sessions'[g2] = sessions[g2]
               /\ ~ret'.ok => sessions' = sessions /\ objs' = objs
               /\ (ret.op = "close_session" /\ ret.g = g) => ~ret'.ok]_vars
    /\ [][\A g \in Guilds, u \in Users, t \in Titles, r \in BOOLEAN :
            (CreateSession(g, u, t, r) /\ ret.op = "close_session" /\ ret.g = g /\ ret.ok) =>
               /\ ret'.ok
               /\ get_session(sessions', g) = ret'.out
               /\ objs'[ret'.out].menus = <<>>]_vars

\* a repeated close returned False: the session a close_vote is still busy
\* with had been closed before
C18_Witness ==
    /\ ret.op = "close_session" /\ ~ret.ok
    /\ sessions[ret.g] = NoRef
    /\ closing # {}

\* C19: is_voter_allowed(voter) is True exactly when the session is not
\* restricted, or the voter is the creator, or the voter is in allowed_voters;
\* in a restricted session it is False for every other voter.
C19_VoterAllowedExactly ==
    ret.op = "is_voter_allowed" =>
        LET self == LastSession
            voter == ret.out
        IN  /\ ~self.is_restricted => ret.ok
            /\ self.is_restricted =>
                  (ret.ok <=> (voter = self.creator_id \/ voter \in self.allowed_voters))

\* in a restricted session with an allowed voter, the creator, who is not in
\* allowed_voters, was found allowed
C19_Witness ==
    /\ ret.op = "is_voter_allowed" /\ ret.ok
    /\ LastSession.is_restricted
    /\ ret.out = LastSession.creator_id
    /\ LastSession.allowed_voters # {}
    /\ ret.out \notin LastSession.allowed_voters

\* C20: add_allowed_voter returns False and leaves allowed_voters as it is
\* when the session is not restricted; in a restricted session it returns
\* True, the voter is in allowed_voters afterwards, and a repeated call
\* changes nothing.
C20_AllowVoter ==
    [][\A g \in Guilds, u \in Users :
         AddAllowedVoter(g, u) =>
            LET pre == objs[sessions[g]]
                post == objs'[sessions[g]]
            IN  /\ ret'.ok = pre.is_restricted
                /\ ~pre.is_restricted => post = pre
                /\ pre.is_restricted =>
                      /\ post.allowed_voters = pre.allowed_voters \cup {u}
                      /\ [post EXCEPT !.allowed_voters = pre.allowed_voters] = pre
                /\ (ret.op = "add_allowed_voter" /\ ret.out = u /\ ret.g = g) => post = pre]_vars

\* add_allowed_voter returned True in a restricted session, and every user
\* is in allowed_voters
C20_Witness ==
    /\ ret.op = "add_allowed_voter" /\ ret.ok
    /\ LastSession.is_restricted
    /\ Cardinality(LastSession.allowed_voters) = NumUsers

C22_OnlyAllowedVote ==
    \A g \in Guilds : sessions[g] # NoRef =>
        LET self == objs[sessions[g]]
        IN  self.is_restricted =>
               \A v \in DOMAIN self.votes :
                   v = self.creator_id \/ v \in self.allowed_voters

\* in a restricted session that holds the creator's ballot, a user who is
\* not allowed has asked for a form and has been turned away
C22_Witness ==
    /\ ret.op = "start_vote" /\ ~ret.ok
    /\ LastSession.is_restricted
    /\ LastSession.creator_id \in DOMAIN LastSession.votes
    /\ ret.out \notin DOMAIN LastSession.votes

\* C23: every score of every stored ballot is an integer from 0 to 5.
C23_ScoresInRange ==
    \A g \in Guilds : sessions[g] # NoRef =>
        \A v \in DOMAIN objs[sessions[g]].votes :
            \A n \in DOMAIN objs[sessions[g]].votes[v].items :
                objs[sessions[g]].votes[v].items[n] \in 0..5

\* a stored ballot holds the lowest and the highest score a select offers
C23_Witness ==
    /\ ret.op = "submit_vote" /\ ret.ok
    /\ \E v \in DOMAIN LastSession.votes :
          {LastSession.votes[v].items[n] : n \in DOMAIN LastSession.votes[v].items}
              = {MIN_SCORE, MAX_SCORE}

\* C24: every stored ballot has a score for every menu of its session (the
\* menus do not change once ballots can be submitted); a dict that lacks a
\* menu is in a form only.
C24_StoredBallotsComplete ==
    \A g \in Guilds : sessions[g] # NoRef =>
        \A v \in DOMAIN objs[sessions[g]].votes :
            DOMAIN objs[sessions[g]].votes[v].items = Keys(objs[sessions[g]].menus)

\* one voter's ballot is stored while another voter's form holds a dict with
\* a score for the first menu only
C24_Witness ==
    /\ ret.op = "select_score"
    /\ \E u, v \in Users :
          /\ u # v
          /\ v \in DOMAIN LastSession.votes
          /\ u \notin DOMAIN LastSession.votes
          /\ held[u].id = u
          /\ DOMAIN held[u].items = {LastSession.menus[1][1]}

\* C25 (as claimed): when two submit_vote calls of one voter ran concurrently
\* on a session in Voting phase and both have returned, the stored ballot is
\* the score map of one of the two calls in full, and the display name stored
\* for the voter is the one given with that call.
C25_SameVoterSerial ==
    (/\ Quiescent
     /\ Cardinality(Returned) = 2
     /\ \A t \in Returned : thr[t].op = "submit_vote" /\ thr[t].ok
     /\ \A t1, t2 \in Returned : thr[t1].user = thr[t2].user) =>
        \A u \in {thr[t].user : t \in Returned} :
            /\ u \in DOMAIN objs[1].votes
            /\ \E t \in Returned :
                  /\ objs[1].votes[u].items = thr[t].arg
                  /\ u \in DOMAIN voter_names(objs[1])
                  /\ voter_names(objs[1])[u] = thr[t].name

\* C26 (as claimed): when two create_session calls for a guild that had no
\* session ran concurrently and both have returned, exactly one returned a
\* session, the other None, and the manager holds the session of the call
\* that succeeded. (Nothing closes a session here, so the guild had no session
\* at the start when it has none now or when a call returned one.)
C26_OneCreateWins ==
    (/\ Quiescent
     /\ Cardinality(Returned) = 2
     /\ \A t \in Returned : thr[t].op = "create_session"
     /\ (get_session(sessions, 1) = NoRef \/ \E t \in Returned : thr[t].ok)) =>
        /\ Cardinality({t \in Returned : thr[t].ok}) = 1
        /\ \A t \in Returned : thr[t].ok =>
              /\ get_session(sessions, 1) # NoRef
              /\ objs[get_session(sessions, 1)].creator_id = thr[t].user
              /\ objs[get_session(sessions, 1)].title = thr[t].arg

\* the ballots of the submit_vote calls in S, as self.votes holds them
VotesOf(S) ==
    [u \in {thr[t].user : t \in S} |->
        DictObj(NoRef, thr[CHOOSE t \in S : thr[t].user = u].arg)]

\* C27 (as claimed): a calculate_results call that ran while submit_vote
\* calls stored ballots (the session had no ballot before) returns what it
\* returns on one snapshot of the ballots: there is a set of the stored
\* submissions, one per voter, whose ballots in full give the returned list.
C27_SnapshotResults ==
    \A tc \in Returned :
        (thr[tc].op = "calculate_results" /\ thr[tc].ok) =>
            \E S \in SUBSET {t \in Returned : thr[t].op = "submit_vote" /\ thr[t].ok} :
                /\ \A t1, t2 \in S : thr[t1].user = thr[t2].user => t1 = t2
                /\ thr[tc].arg = calculate_results([objs[1] EXCEPT !.votes = VotesOf(S)])

\* C28: a guild's session stays registered, the same session under the same
\* guild, in every step but a close_session call for that guild that returns
\* True: no add_menu, remove_menu, submit_vote, calculate_results,
\* create_session, phase change or close_vote takes it out of the manager.
C28_RegisteredUntilClose ==
    [][\A g \in Guilds :
         get_session(sessions, g) # NoRef =>
            \/ /\ get_session(sessions', g) = get_session(sessions, g)
               /\ objs'[sessions[g]].guild_id = g
               /\ objs'[sessions[g]].title = objs[sessions[g]].title
               /\ objs'[sessions[g]].creator_id = objs[sessions[g]].creator_id
            \/ /\ ret'.op = "close_session"
               /\ ret'.g = g /\ ret'.ok
               /\ get_session(sessions', g) = NoRef]_vars

\* results were calculated for a session that is marked closed by close_vote
\* and is registered still
C28_Witness ==
    /\ ret.op = "calculate_results"
    /\ get_session(sessions, ret.g) # NoRef
    /\ LastSession.voting_closed
    /\ DOMAIN LastSession.votes # {}

\* C29: a create_session, close_session, add_menu, remove_menu, submit_vote
\* or start of voting for one guild leaves the manager's entry and the
\* session of every other guild as they are, whatever calls for the guilds
\* came before.
C29_GuildsIndependent ==
    [][\A a \in ManagedGuilds :
         ret'.g = a =>
            \A b \in ManagedGuilds \ {a} :
                /\ get_session(sessions', b) = get_session(sessions, b)
                /\ get_session(sessions, b) # NoRef =>
                      objs'[sessions[b]] = objs[sessions[b]]]_vars

\* a guild's session was closed while another guild, whose session was
\* created later, is in Voting phase with a ballot stored
C29_Witness ==
    /\ ret.op = "close_session" /\ ret.ok
    /\ \E b \in ManagedGuilds \ {ret.g} :
          /\ get_session(sessions, b) = NumManagedGuilds
          /\ Phase(objs[sessions[b]]) = 1
          /\ DOMAIN objs[sessions[b]].votes # {}

C31_EveryCallReturns ==
    \A t \in Threads : (thr[t].pc # "idle") ~> (thr[t].pc = "done")

\* two close_session calls ran at the same time and both came to an end:
\* one deleted the guild's entry, the other found it gone at its del
C31_Witness ==
    /\ Quiescent
    /\ Cardinality(Returned) = NumThreads
    /\ \E t1, t2 \in Returned :
          /\ thr[t1].op = "close_session" /\ thr[t1].ok
          /\ thr[t2].op = "KeyError"

\* the session with another message reference: none where it has one, one
\* where it has none
OtherMessage(self) ==
    [self EXCEPT !.message_id = IF @ = NoRef THEN NumMessages ELSE NoRef]

\* the fields a call of the session leaves alone
SameIdentity(pre, post) ==
    /\ post.title = pre.title /\ post.guild_id = pre.guild_id
    /\ post.channel_id = pre.channel_id /\ post.creator_id = pre.creator_id
    /\ post.message_id = pre.message_id

C33_TieOffered ==
    [][\A s \in SessIds :
         CloseVoteFinish(s) =>
            LET ranked == ranked_of(calculate_results(objs[s]))
            IN  /\ ret'.out = calculate_results(objs[s])
                /\ (ret'.op = "results_view") <=> (Cardinality(TopTied(ranked)) > 1)]_vars

\* C34 (as claimed): cancel_voting or close_vote on the view of a session
\* that the manager has no more, while the guild has a later session, leaves
\* the manager and that later session as they are.
C34_StaleViewHarmless ==
    [][\A s \in ViewSessions, u \in Users :
         (/\ ViewCancelVoting(s, u) \/ ViewCloseVote(s, u)
          /\ get_session(sessions, objs[s].guild_id) # s) =>
            /\ sessions' = sessions
            /\ \A x \in ViewSessions \ {s} : objs'[x] = objs[x]]_vars

\* C35: once the voting of a session has started its menus stay as they
\* were when it started, also when add_menu or remove_menu calls of other
\* threads overlap with the start.
C35_MenusFrozen ==
    [][(voting_has_started(objs[1]) /\ voting_has_started(objs'[1])) =>
          objs'[1].menus = objs[1].menus]_vars

PlaceOf(self, menu_name) == CHOOSE i \in 1..Len(self.menus) : self.menus[i][1] = menu_name

\* C38: ranked menus of the same total and the same min stand in the order
\* in which they were added, so the list is a function of the menus and the
\* ballots.
C38_TiesInInsertionOrder ==
    ret.op = "calculate_results" =>
        LET ranked == ranked_of(ret.out)
        IN  /\ \A i, j \in 1..Len(ranked) :
                  (i < j /\ ranked[i][2] = ranked[j][2] /\ ranked[i][3] = ranked[j][3]) =>
                      PlaceOf(LastSession, ranked[i][1]) < PlaceOf(LastSession, ranked[j][1])
            /\ ranked = ranked_of(calculate_results(LastSession))

\* three menus added in descending order of their names: two of them tie
\* behind a third that was added between them
C38_Witness ==
    /\ ret.op = "calculate_results"
    /\ \E i, j \in 1..Len(ret.out) :
          /\ i < j
          /\ ret.out[i][2] = ret.out[j][2]
          /\ ret.out[i][3] = ret.out[j][3]
          /\ ret.out[i][1] > ret.out[j][1]
          /\ \E k \in 1..Len(ret.out) :
                /\ k < i
                /\ PlaceOf(LastSession, ret.out[i][1]) < PlaceOf(LastSession, ret.out[k][1])
                /\ PlaceOf(LastSession, ret.out[k][1]) < PlaceOf(LastSession, ret.out[j][1])

\* C39 (as claimed): in every state the voters a session stores a display
\* name for are the voters it stores a ballot for.
C39_NamesMatchBallots ==
    \A s \in SessIds : DOMAIN voter_names(objs[s]) = DOMAIN objs[s].votes

\* C40 (as claimed): a revote on a tied result registers a new session for
\* the guild with the voting started, whose menus are the menus tied at the
\* top (two or more), with no ballots, and with the restriction flag and the
\* allowed voters of the session of the results.
C40_RunoffSession ==
    [][\A g \in Guilds, u \in Users :
         Revote(g, u) =>
            LET tied == {ret.out[i][1] : i \in TopTied(ret.out)}
            IN  /\ get_session(sessions', g) # NoRef
                /\ LET new == objs'[get_session(sessions', g)]
                   IN  /\ Phase(new) = 1
                       /\ new.guild_id = g
                       /\ Keys(new.menus) = tied /\ Cardinality(tied) >= 2
                       /\ new.votes = EmptyMap
                       /\ "is_restricted" \in DOMAIN new
                       /\ "is_restricted" \in DOMAIN objs[1] =>
                             /\ new.is_restricted = objs[1].is_restricted
                             /\ new.allowed_voters = objs[1].allowed_voters]_vars

====
